---- MODULE Spec2Model ----
(***************************************************************************)
(* MX_Device.h: the STM32CubeMX parameter table of the USB audio DAC.      *)
(*                                                                         *)
(* The header is a list of #define directives under section banners, all   *)
(* inside an include guard.  The model is the translation of a unit that   *)
(* includes the header (possibly more than once) and whose own code        *)
(* references the names: the header is read directive by directive into    *)
(* the macro table, and a reference is macro-expanded against that table.  *)
(***************************************************************************)
EXTENDS Integers, Sequences, FiniteSets, TLC

(* How many times the translation unit includes the header. *)
MaxIncludes == 2

(***************************************************************************)
(* Replacement lists.  Every macro of the header has a replacement list of *)
(* at most one token: an identifier, an integer literal, or nothing.       *)
(***************************************************************************)
Tok(s) == [kind |-> "ident", id |-> s, num |-> 0]
Num(n) == [kind |-> "int", id |-> "", num |-> n]
Empty == [kind |-> "empty", id |-> "", num |-> 0]

(***************************************************************************)
(* The lines of the header that carry structure, each with its line        *)
(* number: directives, peripheral banners and pin banners.                 *)
(***************************************************************************)
Ifndef(ln, n) == [ln |-> ln, kind |-> "ifndef", name |-> n, val |-> Empty]
Def(ln, n, v) == [ln |-> ln, kind |-> "define", name |-> n, val |-> v]
Section(ln, n) == [ln |-> ln, kind |-> "section", name |-> n, val |-> Empty]
PinBanner(ln, n) == [ln |-> ln, kind |-> "pin", name |-> n, val |-> Empty]
Endif(ln) == [ln |-> ln, kind |-> "endif", name |-> "", val |-> Empty]

GuardName == "MX_DEVICE_H__"

GuardOpen ==
    << Ifndef(9, GuardName),
       Def(10, GuardName, Empty),
       Def(13, "MX_DEVICE_VERSION", Num(16777216)) >>

GuardClose == << Endif(90) >>

I2C1Section ==
    << Section(16, "I2C1"),
       Def(17, "MX_I2C1", Num(1)),
       PinBanner(21, "I2C1_SCL"),
       Def(22, "MX_I2C1_SCL_Pin", Tok("PB6")),
       Def(23, "MX_I2C1_SCL_GPIO_Pin", Tok("GPIO_PIN_6")),
       Def(24, "MX_I2C1_SCL_GPIOx", Tok("GPIOB")),
       Def(25, "MX_I2C1_SCL_GPIO_Mode", Tok("GPIO_MODE_AF_OD")),
       Def(26, "MX_I2C1_SCL_GPIO_PuPd", Tok("GPIO_PULLUP")),
       Def(27, "MX_I2C1_SCL_GPIO_Speed", Tok("GPIO_SPEED_FREQ_LOW")),
       Def(28, "MX_I2C1_SCL_GPIO_AF", Tok("GPIO_AF4_I2C1")),
       PinBanner(30, "I2C1_SDA"),
       Def(31, "MX_I2C1_SDA_Pin", Tok("PB9")),
       Def(32, "MX_I2C1_SDA_GPIO_Pin", Tok("GPIO_PIN_9")),
       Def(33, "MX_I2C1_SDA_GPIOx", Tok("GPIOB")),
       Def(34, "MX_I2C1_SDA_GPIO_Mode", Tok("GPIO_MODE_AF_OD")),
       Def(35, "MX_I2C1_SDA_GPIO_PuPd", Tok("GPIO_PULLUP")),
       Def(36, "MX_I2C1_SDA_GPIO_Speed", Tok("GPIO_SPEED_FREQ_LOW")),
       Def(37, "MX_I2C1_SDA_GPIO_AF", Tok("GPIO_AF4_I2C1")) >>

SPI1Head ==
    << Section(39, "SPI1"),
       Def(40, "MX_SPI1", Num(1)),
       Def(43, "MX_SPI1_PERIPH_CLOCK_FREQ", Num(84000000)) >>

SPI1DataPins ==
    << PinBanner(47, "SPI1_MISO"),
       Def(48, "MX_SPI1_MISO_Pin", Tok("PA6")),
       Def(49, "MX_SPI1_MISO_GPIO_Pin", Tok("GPIO_PIN_6")),
       Def(50, "MX_SPI1_MISO_GPIOx", Tok("GPIOA")),
       Def(51, "MX_SPI1_MISO_GPIO_Mode", Tok("GPIO_MODE_AF_PP")),
       Def(52, "MX_SPI1_MISO_GPIO_PuPd", Tok("GPIO_NOPULL")),
       Def(53, "MX_SPI1_MISO_GPIO_Speed", Tok("GPIO_SPEED_FREQ_LOW")),
       Def(54, "MX_SPI1_MISO_GPIO_AF", Tok("GPIO_AF5_SPI1")),
       PinBanner(56, "SPI1_MOSI"),
       Def(57, "MX_SPI1_MOSI_Pin", Tok("PA7")),
       Def(58, "MX_SPI1_MOSI_GPIO_Pin", Tok("GPIO_PIN_7")),
       Def(59, "MX_SPI1_MOSI_GPIOx", Tok("GPIOA")),
       Def(60, "MX_SPI1_MOSI_GPIO_Mode", Tok("GPIO_MODE_AF_PP")),
       Def(61, "MX_SPI1_MOSI_GPIO_PuPd", Tok("GPIO_NOPULL")),
       Def(62, "MX_SPI1_MOSI_GPIO_Speed", Tok("GPIO_SPEED_FREQ_LOW")),
       Def(63, "MX_SPI1_MOSI_GPIO_AF", Tok("GPIO_AF5_SPI1")) >>

SPI1ClockPin ==
    << PinBanner(65, "SPI1_SCK"),
       Def(66, "MX_SPI1_SCK_Pin", Tok("PA5")),
       Def(67, "MX_SPI1_SCK_GPIO_Pin", Tok("GPIO_PIN_5")),
       Def(68, "MX_SPI1_SCK_GPIOx", Tok("GPIOA")),
       Def(69, "MX_SPI1_SCK_GPIO_Mode", Tok("GPIO_MODE_AF_PP")),
       Def(70, "MX_SPI1_SCK_GPIO_PuPd", Tok("GPIO_NOPULL")),
       Def(71, "MX_SPI1_SCK_GPIO_Speed", Tok("GPIO_SPEED_FREQ_VERY_HIGH")),
       Def(72, "MX_SPI1_SCK_GPIO_AF", Tok("GPIO_AF5_SPI1")) >>

UsbDeviceSection ==
    << Section(74, "USB_DEVICE"),
       Def(75, "MX_USB_DEVICE", Num(1)),
       Def(78, "MX_USB_DEVICE_VM", Tok("Cdc_FS")),
       Def(79, "MX_USB_DEVICE_Cdc_FS", Num(1)) >>

UsbOtgFsSection ==
    << Section(82, "USB_OTG_FS"),
       Def(83, "MX_USB_OTG_FS", Num(1)),
       Def(86, "MX_USB_OTG_FS_VM", Tok("Device_Only")),
       Def(87, "MX_USB_OTG_FS_Device_Only", Num(1)) >>

(* A table with the replacement list of one name changed. *)
Patch(lines, n, v) ==
    [i \in DOMAIN lines |->
        IF lines[i].kind = "define" /\ lines[i].name = n
        THEN Def(lines[i].ln, n, v) ELSE lines[i]]

Pinout == I2C1Section \o SPI1Head \o SPI1DataPins \o SPI1ClockPin
Usb == UsbDeviceSection \o UsbOtgFsSection

(* Faulty tables: each is the header with one generator slip. *)
Header_SckSpeedLow ==
    GuardOpen \o Patch(Pinout, "MX_SPI1_SCK_GPIO_Speed", Tok("GPIO_SPEED_FREQ_LOW")) \o Usb \o GuardClose
Header_SclOnPortA ==
    GuardOpen \o Patch(Pinout, "MX_I2C1_SCL_GPIOx", Tok("GPIOA")) \o Usb \o GuardClose
Header_SpiClockApb1 ==
    GuardOpen \o Patch(Pinout, "MX_SPI1_PERIPH_CLOCK_FREQ", Num(42000000)) \o Usb \o GuardClose
Header_UsbVmHs ==
    GuardOpen \o Pinout \o Patch(Usb, "MX_USB_DEVICE_VM", Tok("Cdc_HS")) \o GuardClose
Header_NoOtgFs ==
    GuardOpen \o Pinout \o UsbDeviceSection \o GuardClose
Header_SckSpeedTwice ==
    GuardOpen \o Pinout \o << Def(73, "MX_SPI1_SCK_GPIO_Speed", Tok("GPIO_SPEED_FREQ_LOW")) >> \o Usb \o GuardClose
Header_MosiOnPin6 ==
    GuardOpen \o Patch(Pinout, "MX_SPI1_MOSI_GPIO_Pin", Tok("GPIO_PIN_6")) \o Usb \o GuardClose
Header_SdaPinBit8 ==
    GuardOpen \o Patch(Pinout, "MX_I2C1_SDA_GPIO_Pin", Tok("GPIO_PIN_8")) \o Usb \o GuardClose
Header_MisoOpenDrain ==
    GuardOpen \o Patch(Pinout, "MX_SPI1_MISO_GPIO_Mode", Tok("GPIO_MODE_AF_OD")) \o Usb \o GuardClose

Header == GuardOpen \o Pinout \o Usb \o GuardClose

(* The names the header defines, and the position of its closing #endif. *)
HeaderNames == { Header[i].name : i \in { j \in DOMAIN Header : Header[j].kind = "define" } }
EndifAt == CHOOSE i \in DOMAIN Header : Header[i].kind = "endif"

(***************************************************************************)
(* Names the including code may reference: every name of the header, and   *)
(* names of the same shapes that the header does not define.               *)
(***************************************************************************)
ForeignNames ==
    { "MX_I2C1_PERIPH_CLOCK_FREQ", "MX_I2C1_VM", "MX_SPI1_VM",
      "MX_SPI1_NSS_Pin", "MX_USART1", "Cdc_FS", "GPIOB" }
RefNames == HeaderNames \cup ForeignNames

VARIABLES
    pc,        \* 0 outside the header, else the index in Header of the next line
    includes,  \* number of #include "MX_Device.h" seen so far
    macros,    \* the macro table: name -> replacement list
    defcount,  \* name -> number of #define directives executed for it
    owner,     \* name -> the banners it was defined under
    section,   \* the peripheral banner the reader is under
    pin,       \* the pin banner the reader is under
    sections,  \* peripheral banners read
    pins,      \* pin banners read, each with its peripheral
    refname,   \* last name the including code referenced ("" if none)
    refval     \* what that reference expanded to

vars == << pc, includes, macros, defcount, owner, section, pin, sections, pins,
           refname, refval >>

EmptyTable == [n \in {} |-> Empty]

(***************************************************************************)
(* Macro expansion of one token: a defined identifier is replaced by its   *)
(* replacement list, which is rescanned with that name hidden.             *)
(***************************************************************************)
RECURSIVE ExpandTok(_, _, _)
ExpandTok(tok, tbl, hide) ==
    IF tok.kind = "ident" /\ tok.id \in DOMAIN tbl /\ tok.id \notin hide
    THEN ExpandTok(tbl[tok.id], tbl, hide \cup {tok.id})
    ELSE tok

Resolve(n) == ExpandTok(Tok(n), macros, {})
IsDefined(n) == n \in DOMAIN macros

Init ==
    /\ pc = 0
    /\ includes = 0
    /\ macros = EmptyTable
    /\ defcount = EmptyTable
    /\ owner = EmptyTable
    /\ section = ""
    /\ pin = ""
    /\ sections = {}
    /\ pins = {}
    /\ refname = ""
    /\ refval = Empty

(* #include "MX_Device.h" in the including code. *)
Include ==
    /\ pc = 0
    /\ includes < MaxIncludes
    /\ includes' = includes + 1
    /\ pc' = 1
    /\ UNCHANGED << macros, defcount, owner, section, pin, sections, pins, refname, refval >>

(* The #ifndef of a header without a working guard: the group is never skipped. *)
StepIfndef_NeverSkips ==
    /\ pc # 0
    /\ Header[pc].kind = "ifndef"
    /\ pc' = pc + 1
    /\ UNCHANGED << includes, macros, defcount, owner, section, pin, sections, pins, refname, refval >>

(* #ifndef: the group up to the matching #endif is skipped when the name is defined. *)
StepIfndef ==
    /\ pc # 0
    /\ Header[pc].kind = "ifndef"
    /\ pc' = IF IsDefined(Header[pc].name) THEN EndifAt ELSE pc + 1
    /\ UNCHANGED << includes, macros, defcount, owner, section, pin, sections, pins, refname, refval >>

(* A peripheral banner opens a group of constants. *)
StepSection ==
    /\ pc # 0
    /\ Header[pc].kind = "section"
    /\ section' = Header[pc].name
    /\ pin' = ""
    /\ sections' = sections \cup {Header[pc].name}
    /\ pc' = pc + 1
    /\ UNCHANGED << includes, macros, defcount, owner, pins, refname, refval >>

(* A pin banner opens a pin entry inside the current peripheral group. *)
StepPin ==
    /\ pc # 0
    /\ Header[pc].kind = "pin"
    /\ pin' = Header[pc].name
    /\ pins' = pins \cup {[pin |-> Header[pc].name, section |-> section]}
    /\ pc' = pc + 1
    /\ UNCHANGED << includes, macros, defcount, owner, section, sections, refname, refval >>

(* #define: binds the name to its replacement list. *)
StepDefine ==
    /\ pc # 0
    /\ Header[pc].kind = "define"
    /\ LET n == Header[pc].name IN
        /\ macros' = (n :> Header[pc].val) @@ macros
        /\ defcount' = (n :> (IF n \in DOMAIN defcount THEN defcount[n] + 1 ELSE 1)) @@ defcount
        /\ owner' = (n :> [section |-> section, pin |-> pin]) @@ owner
    /\ pc' = pc + 1
    /\ UNCHANGED << includes, section, pin, sections, pins, refname, refval >>

(* #endif: the end of the header; the including code goes on. *)
StepEndif ==
    /\ pc # 0
    /\ Header[pc].kind = "endif"
    /\ pc' = 0
    /\ section' = ""
    /\ pin' = ""
    /\ UNCHANGED << includes, macros, defcount, owner, sections, pins, refname, refval >>

(* The including code references a name: it is macro-expanded, the table is only read. *)
Reference ==
    /\ pc = 0
    /\ \E n \in RefNames :
        /\ refname' = n
        /\ refval' = Resolve(n)
    /\ UNCHANGED << pc, includes, macros, defcount, owner, section, pin, sections, pins >>

Next ==
    \/ Include
    \/ StepIfndef
    \/ StepSection
    \/ StepPin
    \/ StepDefine
    \/ StepEndif
    \/ Reference

Spec == Init /\ [][Next]_vars

(* The header has been included and read to its end. *)
Loaded == pc = 0 /\ includes > 0

(***************************************************************************)
(* The table as the including code sees it.                                *)
(***************************************************************************)
PinAttrs == { "Pin", "GPIO_Pin", "GPIOx", "GPIO_Mode", "GPIO_PuPd", "GPIO_Speed", "GPIO_AF" }
PinSignals == { e.pin : e \in pins }
AttrName(p, a) == "MX_" \o p \o "_" \o a
PinAttr(p, a) == Resolve(AttrName(p, a))
PortLetters == { "A", "B", "C", "D", "E", "H" }

(* The name shapes of a peripheral group: presence flag, clock frequency,   *)
(* virtual mode and its mode flag, and the attributes of the group's pins.  *)
GroupNames(s) ==
    { "MX_" \o s, "MX_" \o s \o "_PERIPH_CLOCK_FREQ", "MX_" \o s \o "_VM" }
    \cup { "MX_" \o s \o "_" \o t.id : t \in { Resolve("MX_" \o s \o "_VM") } }
    \cup { AttrName(e.pin, a) : e \in { x \in pins : x.section = s }, a \in PinAttrs }

(* C1: once the header is read, MX_SPI1_SCK_GPIO_Speed expands to           *)
(* GPIO_SPEED_FREQ_VERY_HIGH.                                               *)
C1_SckSpeedVeryHigh ==
    Loaded => Resolve("MX_SPI1_SCK_GPIO_Speed") = Tok("GPIO_SPEED_FREQ_VERY_HIGH")
C1_Witness ==
    /\ Loaded
    /\ refname = "MX_SPI1_SCK_GPIO_Speed"
    /\ refval = Tok("GPIO_SPEED_FREQ_VERY_HIGH")

(* C2: once the header is read, MX_I2C1_SCL_GPIOx expands to GPIOB.         *)
C2_SclOnPortB ==
    Loaded => Resolve("MX_I2C1_SCL_GPIOx") = Tok("GPIOB")
C2_Witness ==
    /\ Loaded
    /\ refname = "MX_I2C1_SCL_GPIOx"
    /\ refval = Tok("GPIOB")

(* C3: once the header is read, MX_SPI1_PERIPH_CLOCK_FREQ is the integer    *)
(* 84000000, and of the peripheral groups only SPI1 defines a               *)
(* MX_<peripheral>_PERIPH_CLOCK_FREQ.                                       *)
C3_SpiClockOnly ==
    Loaded =>
        /\ Resolve("MX_SPI1_PERIPH_CLOCK_FREQ") = Num(84000000)
        /\ \A s \in sections :
              IsDefined("MX_" \o s \o "_PERIPH_CLOCK_FREQ") <=> s = "SPI1"
C3_Witness ==
    /\ Loaded
    /\ Cardinality(sections) > 1
    /\ refname = "MX_SPI1_PERIPH_CLOCK_FREQ"
    /\ refval.kind = "int" /\ refval.num = 84000000

(* C4: once the header is read, MX_USB_DEVICE_VM is the token Cdc_FS, and   *)
(* the flag named by pasting that token to MX_USB_DEVICE_ is defined as 1.  *)
C4_UsbDeviceCdcFs ==
    Loaded =>
        /\ Resolve("MX_USB_DEVICE_VM") = Tok("Cdc_FS")
        /\ IsDefined("MX_USB_DEVICE_" \o Resolve("MX_USB_DEVICE_VM").id)
        /\ Resolve("MX_USB_DEVICE_" \o Resolve("MX_USB_DEVICE_VM").id) = Num(1)
C4_Witness ==
    /\ Loaded
    /\ refname = "MX_USB_DEVICE_Cdc_FS"
    /\ refval = Num(1)
    /\ Resolve("MX_USB_DEVICE_VM") = Tok("Cdc_FS")

(* C5: once the header is read, however often it was included, the pin      *)
(* entries are exactly the five pins, each entered once, and for each pin   *)
(* every one of the seven attributes is defined, by exactly one #define,    *)
(* under that pin's banner.                                                 *)
C5_OneTuplePerPin ==
    Loaded =>
        /\ PinSignals = { "I2C1_SCL", "I2C1_SDA", "SPI1_MISO", "SPI1_MOSI", "SPI1_SCK" }
        /\ \A p \in PinSignals :
              /\ Cardinality({ e \in pins : e.pin = p }) = 1
              /\ \A a \in PinAttrs :
                    /\ IsDefined(AttrName(p, a))
                    /\ defcount[AttrName(p, a)] = 1
                    /\ owner[AttrName(p, a)].pin = p
C5_Witness ==
    /\ Loaded
    /\ includes = 2
    /\ Cardinality(PinSignals) = 5
    /\ refname = "MX_SPI1_SCK_GPIO_AF"
    /\ refval = Tok("GPIO_AF5_SPI1")

(* C6: once the header is read, the peripheral groups are exactly I2C1,     *)
(* SPI1, USB_DEVICE and USB_OTG_FS; each group's presence flag is 1 and is  *)
(* defined in its group; every pin entry lies in I2C1 or SPI1; MX_<p>_VM is *)
(* defined exactly for USB_DEVICE and USB_OTG_FS; and every name defined    *)
(* under a banner has one of the name shapes of that banner's group.        *)
C6_FourPeripherals ==
    Loaded =>
        /\ sections = { "I2C1", "SPI1", "USB_DEVICE", "USB_OTG_FS" }
        /\ \A s \in sections :
              /\ Resolve("MX_" \o s) = Num(1)
              /\ IsDefined("MX_" \o s) /\ owner["MX_" \o s].section = s
              /\ IsDefined("MX_" \o s \o "_VM") <=> s \in { "USB_DEVICE", "USB_OTG_FS" }
        /\ \A e \in pins : e.section \in { "I2C1", "SPI1" }
        /\ \A n \in DOMAIN owner :
              owner[n].section # "" =>
                  owner[n].section \in sections /\ n \in GroupNames(owner[n].section)
C6_Witness ==
    /\ Loaded
    /\ Cardinality(sections) = 4
    /\ refname = "MX_USB_OTG_FS_VM"
    /\ refval = Tok("Device_Only")

(* C7: no step changes a binding: a name that is defined stays defined,     *)
(* with the same replacement list, across every step (reading on, a         *)
(* further #include, a reference from the including code).                  *)
C7_BindingsFrozen ==
    [][\A n \in DOMAIN macros : n \in DOMAIN macros' /\ macros'[n] = macros[n]]_vars
C7_Witness ==
    /\ Loaded
    /\ includes = 2
    /\ refname = "MX_DEVICE_VERSION"
    /\ refval = Num(16777216)

(* C8: once the header is read, two distinct pin entries never have the     *)
(* same (GPIOx, GPIO_Pin) pair.                                             *)
C8_NoPinTwice ==
    Loaded =>
        \A p, q \in PinSignals :
            p # q => << PinAttr(p, "GPIOx"), PinAttr(p, "GPIO_Pin") >>
                         # << PinAttr(q, "GPIOx"), PinAttr(q, "GPIO_Pin") >>
C8_Witness ==
    /\ Loaded
    /\ PinAttr("I2C1_SCL", "GPIO_Pin") = PinAttr("SPI1_MISO", "GPIO_Pin")
    /\ PinAttr("I2C1_SCL", "GPIOx") # PinAttr("SPI1_MISO", "GPIOx")
    /\ refname = "MX_SPI1_MISO_GPIO_Pin"
    /\ refval = Tok("GPIO_PIN_6")

(* C9: once the header is read, every pin entry names one location three    *)
(* times: its Pin is P<letter><n>, its GPIOx is GPIO<letter> and its        *)
(* GPIO_Pin is GPIO_PIN_<n>.                                                *)
C9_LocationAgrees ==
    Loaded =>
        \A p \in PinSignals :
            \E l \in PortLetters, k \in 0..15 :
                /\ PinAttr(p, "Pin") = Tok("P" \o l \o ToString(k))
                /\ PinAttr(p, "GPIOx") = Tok("GPIO" \o l)
                /\ PinAttr(p, "GPIO_Pin") = Tok("GPIO_PIN_" \o ToString(k))
C9_Witness ==
    /\ Loaded
    /\ "I2C1_SDA" \in PinSignals
    /\ refname = "MX_I2C1_SDA_Pin"
    /\ refval = Tok("PB9")
    /\ PinAttr("I2C1_SDA", "GPIOx") = Tok("GPIOB")
    /\ PinAttr("I2C1_SDA", "GPIO_Pin") = Tok("GPIO_PIN_9")

(* C10: once the header is read, every pin entry of the I2C1 group has      *)
(* GPIO_AF4_I2C1, GPIO_MODE_AF_OD and GPIO_PULLUP, and every pin entry of   *)
(* the SPI1 group has GPIO_AF5_SPI1, GPIO_MODE_AF_PP and GPIO_NOPULL.       *)
C10_ElectricalMatchesGroup ==
    Loaded =>
        \A e \in pins :
            /\ e.section = "I2C1" =>
                  /\ PinAttr(e.pin, "GPIO_AF") = Tok("GPIO_AF4_I2C1")
                  /\ PinAttr(e.pin, "GPIO_Mode") = Tok("GPIO_MODE_AF_OD")
                  /\ PinAttr(e.pin, "GPIO_PuPd") = Tok("GPIO_PULLUP")
            /\ e.section = "SPI1" =>
                  /\ PinAttr(e.pin, "GPIO_AF") = Tok("GPIO_AF5_SPI1")
                  /\ PinAttr(e.pin, "GPIO_Mode") = Tok("GPIO_MODE_AF_PP")
                  /\ PinAttr(e.pin, "GPIO_PuPd") = Tok("GPIO_NOPULL")
            /\ e.section \in { "I2C1", "SPI1" }
C10_Witness ==
    /\ Loaded
    /\ [pin |-> "SPI1_MISO", section |-> "SPI1"] \in pins
    /\ [pin |-> "I2C1_SCL", section |-> "I2C1"] \in pins
    /\ refname = "MX_SPI1_MISO_GPIO_Mode"
    /\ refval = Tok("GPIO_MODE_AF_PP")

====
